---- MODULE Spec2Model ----
(***************************************************************************)
(* A model of the part-of-speech tagging notebook: the frequency counters, *)
(* the most-frequent-class tagger, the construction of the bigram HMM, the *)
(* decoding helpers and the accuracy function.  The notebook's cells are   *)
(* run top to bottom; once every cell has run, a decoding call is made     *)
(* against either tagger.                                                  *)
(*                                                                         *)
(* Python dictionaries are sequences of <<key, value>> pairs in insertion  *)
(* order.  Probabilities are exact fractions <<numerator, denominator>>.   *)
(***************************************************************************)
EXTENDS Integers, Sequences, FiniteSets, TLC

\* Total number of (word, tag) tokens of a corpus (training and testing set).
MaxTokens == 4
\* Longest observation sequence handed to a decoding call.
MaxObs == 2
\* Total number of tokens of a corpus in the runs with repeated calls.
MaxCallTokens == 3

Tags == {"NOUN", "VERB"}
Words == {"Spot", "ran"}

START == "<start>"
END == "<end>"
NAN == "nan"
MISSING == "<MISSING>"

-----------------------------------------------------------------------------
(* Python dict, as a sequence of <<key, value>> pairs in insertion order *)

DictHas(d, k) == \E i \in 1..Len(d) : d[i][1] = k

DictGet(d, k) == d[CHOOSE i \in 1..Len(d) : d[i][1] = k][2]

DictSet(d, k, v) ==
    IF DictHas(d, k)
    THEN [i \in 1..Len(d) |-> IF d[i][1] = k THEN <<k, v>> ELSE d[i]]
    ELSE Append(d, <<k, v>>)

DictKeys(d) == {d[i][1] : i \in 1..Len(d)}

RECURSIVE SeqSum(_)
SeqSum(s) == IF s = <<>> THEN 0 ELSE Head(s) + SeqSum(Tail(s))

\* sum(d.values())
DictSum(d) == SeqSum([i \in 1..Len(d) |-> d[i][2]])

\* d[k] += 1, or d[k] = 1 for a new key
DictIncr(d, k) == IF DictHas(d, k) THEN DictSet(d, k, DictGet(d, k) + 1)
                  ELSE DictSet(d, k, 1)

-----------------------------------------------------------------------------
(* Exact fractions *)

\* a fraction is the pair <<numerator, denominator>>; a probability is put in
\* lowest terms when it is computed from counts, and a comparison divides the
\* common factors out, so that the products of a long path stay within the
\* integers of the checker
RECURSIVE GCD(_, _)
GCD(a, b) == IF b = 0 THEN a ELSE GCD(b, a % b)

Zero == <<0, 1>>
One == <<1, 1>>
Frac(n, d) == <<n \div GCD(n, d), d \div GCD(n, d)>>
Mul(p, q) == IF p[1] = 0 \/ q[1] = 0 THEN Zero ELSE <<p[1] * q[1], p[2] * q[2]>>
\* p < q by cross-multiplication, the common factors g of the numerators and
\* h of the denominators divided out first
CrossLess(p, q, g, h) ==
    (p[1] \div g) * (q[2] \div h) < (q[1] \div g) * (p[2] \div h)
Less(p, q) ==
    IF q[1] = 0 THEN FALSE
    ELSE IF p[1] = 0 THEN TRUE
    ELSE IF p[2] = q[2] THEN p[1] < q[1]
    ELSE CrossLess(p, q, GCD(p[1], q[1]), GCD(p[2], q[2]))
IsZero(p) == p[1] = 0

-----------------------------------------------------------------------------
(* The counters *)

RECURSIVE pair_counts_loop(_, _, _, _, _)
pair_counts_loop(sequences_A, sequences_B, x1, x2, results) ==
    IF x1 > Len(sequences_A) THEN [err |-> "none", results |-> results]
    ELSE IF x2 > Len(sequences_A[x1])
    THEN pair_counts_loop(sequences_A, sequences_B, x1 + 1, 1, results)
    ELSE IF x1 > Len(sequences_B) \/ x2 > Len(sequences_B[x1])
    THEN [err |-> "IndexError", results |-> <<>>]
    ELSE LET s_A == sequences_A[x1][x2]
             t == sequences_B[x1][x2]
         IN  pair_counts_loop(sequences_A, sequences_B, x1, x2 + 1,
                IF DictHas(results, s_A) /\ DictHas(DictGet(results, s_A), t)
                THEN DictSet(results, s_A,
                        DictSet(DictGet(results, s_A), t,
                                DictGet(DictGet(results, s_A), t) + 1))
                ELSE IF DictHas(results, s_A)
                THEN DictSet(results, s_A, DictSet(DictGet(results, s_A), t, 1))
                ELSE DictSet(results, s_A, <<<<t, 1>>>>))

\* variant: the sequences zipped the other way round
pair_counts_swapped(sequences_A, sequences_B) ==
    pair_counts_loop(sequences_B, sequences_A, 1, 1, <<>>)

pair_counts(sequences_A, sequences_B) ==
    pair_counts_loop(sequences_A, sequences_B, 1, 1, <<>>)

RECURSIVE unigram_counts_loop(_, _, _, _)
unigram_counts_loop(sequences, i, j, counts) ==
    IF i > Len(sequences) THEN counts
    ELSE IF j > Len(sequences[i]) THEN unigram_counts_loop(sequences, i + 1, 1, counts)
    ELSE unigram_counts_loop(sequences, i, j + 1, DictIncr(counts, sequences[i][j]))

unigram_counts(sequences) == unigram_counts_loop(sequences, 1, 1, <<>>)

RECURSIVE bigram_counts_loop(_, _, _, _)
bigram_counts_loop(sequences, i, y, counts) ==
    IF i > Len(sequences) THEN counts
    ELSE IF y > Len(sequences[i]) - 1 THEN bigram_counts_loop(sequences, i + 1, 1, counts)
    ELSE bigram_counts_loop(sequences, i, y + 1,
            DictIncr(counts, <<sequences[i][y], sequences[i][y + 1]>>))

\* all the sentences joined into one
RECURSIVE Flatten(_)
Flatten(sequences) ==
    IF sequences = <<>> THEN <<>> ELSE Head(sequences) \o Flatten(Tail(sequences))

\* variant: the pairs counted over the corpus as one sequence
bigram_counts_across(sequences) == bigram_counts_loop(<<Flatten(sequences)>>, 1, 1, <<>>)

bigram_counts(sequences) == bigram_counts_loop(sequences, 1, 1, <<>>)

RECURSIVE starting_counts_loop(_, _, _)
starting_counts_loop(sequences, i, counts) ==
    IF i > Len(sequences) THEN counts
    ELSE starting_counts_loop(sequences, i + 1, DictIncr(counts, sequences[i][1]))

starting_counts(sequences) == starting_counts_loop(sequences, 1, <<>>)

RECURSIVE ending_counts_loop(_, _, _)
ending_counts_loop(sequences, i, counts) ==
    IF i > Len(sequences) THEN counts
    ELSE LET indexVal == Len(sequences[i])
         IN  ending_counts_loop(sequences, i + 1,
                                DictIncr(counts, sequences[i][indexVal]))

\* variant: the last element counted as the element before the end
RECURSIVE ending_counts_short(_, _, _)
ending_counts_short(sequences, i, counts) ==
    IF i > Len(sequences) THEN counts
    ELSE ending_counts_short(sequences, i + 1,
            IF Len(sequences[i]) - 1 >= 1
            THEN DictIncr(counts, sequences[i][Len(sequences[i]) - 1])
            ELSE counts)

ending_counts_before_last(sequences) == ending_counts_short(sequences, 1, <<>>)

ending_counts(sequences) == ending_counts_loop(sequences, 1, <<>>)

-----------------------------------------------------------------------------
(* The dataset: a corpus of tagged sentences split into a training set and *)
(* a testing set                                                           *)

\* Subset.X and Subset.Y: the words, and the tags, grouped by sentence
SubsetOf(sentences) ==
    [X |-> [i \in 1..Len(sentences) |-> sentences[i].words],
     Y |-> [i \in 1..Len(sentences) |-> sentences[i].tags]]

\* Subset.vocab: the unique words of the subset
vocab(subset) ==
    UNION {{subset.X[i][j] : j \in 1..Len(subset.X[i])} : i \in 1..Len(subset.X)}

\* len(subset)
NumSentences(subset) == Len(subset.Y)

-----------------------------------------------------------------------------
(* The most frequent class tagger *)

\* variant: the first key, whatever its value
MaxKey_first(d) == d[1][1]

\* max(d.keys(), key=lambda k: d[k]): the first key, in insertion order, of
\* the largest value
MaxKey(d) ==
    d[CHOOSE i \in 1..Len(d) :
        /\ \A j \in 1..Len(d) : d[j][2] <= d[i][2]
        /\ \A j \in 1..(i - 1) : d[j][2] < d[i][2]][1]

\* the mfc_table cell: the most frequent tag of every training word
mfc_table_of(word_counts, training_vocab) ==
    [word \in training_vocab |-> MaxKey(DictGet(word_counts, word))]

\* MFCTagger.__init__
MFCTagger(table) == [kind |-> "mfc", table |-> table]

\* self.table[w] of the defaultdict: the entry, or the missing state
TableLookup(table, w) == IF w \in DOMAIN table THEN table[w] ELSE MISSING

\* variant: an absent key is inserted with itself as its state
TableAfter_inserts_key(table, seq) ==
    [w \in (DOMAIN table) \cup {seq[i] : i \in 1..Len(seq)} |->
        IF w \in DOMAIN table THEN table[w] ELSE w]

\* the defaultdict after the lookups of seq: a looked-up key that was absent
\* has been inserted with the missing state
TableAfter(table, seq) ==
    [w \in (DOMAIN table) \cup {seq[i] : i \in 1..Len(seq)} |-> TableLookup(table, w)]

\* MFCTagger.viterbi: list(enumerate(["<start>"] + [...] + ["<end>"]))
mfc_viterbi(model, seq) ==
    [raised |-> FALSE,
     found |-> TRUE,
     path |-> [i \in 1..(Len(seq) + 2) |->
                 IF i = 1 THEN <<0, START>>
                 ELSE IF i = Len(seq) + 2 THEN <<i - 1, END>>
                 ELSE <<i - 1, TableLookup(model.table, seq[i - 1])>>],
     model |-> [model EXCEPT !.table = TableAfter(model.table, seq)]]

-----------------------------------------------------------------------------
(* The hidden Markov model object of the library the notebook imports:     *)
(* states with discrete emission distributions, a sparse transition graph, *)
(* bake() and viterbi()                                                    *)

\* HiddenMarkovModel(name=...)
HiddenMarkovModel ==
    [kind |-> "hmm", states |-> <<>>, dist |-> <<>>, trans |-> <<>>, baked |-> FALSE]

\* model.add_state(State(DiscreteDistribution(prob_dist), name=tag))
add_state(m, tag, prob_dist) ==
    [m EXCEPT !.states = Append(@, tag), !.dist = DictSet(@, tag, prob_dist)]

\* model.add_transition(a, b, prob): one edge per ordered pair of states
add_transition(m, a, b, prob) == [m EXCEPT !.trans = DictSet(@, <<a, b>>, prob)]

\* model.bake(): the model is finalized
bake(m) == [m EXCEPT !.baked = TRUE]

\* P(b | a): the probability of the edge, zero for an edge never created
transition_probability(m, a, b) ==
    IF DictHas(m.trans, <<a, b>>) THEN DictGet(m.trans, <<a, b>>) ELSE Zero

\* P(o | tag) as the decoder uses it: when the tag has no emission probability
\* for the observation, the sentinel or a word the tag never emitted alike,
\* the emission is ignored (probability one) and the path continues on the
\* transition probabilities alone
emission_probability(m, tag, o) ==
    IF DictHas(DictGet(m.dist, tag), o) THEN DictGet(DictGet(m.dist, tag), o)
    ELSE One

\* the index of the first largest entry of f over 1..K
ArgMax(f, K) ==
    CHOOSE i \in 1..K :
        /\ \A j \in 1..K : ~Less(f[i], f[j])
        /\ \A j \in 1..(i - 1) : Less(f[j], f[i])

\* the scores of reaching state k from each previous state j
step(m, prev, k) ==
    [j \in 1..Len(m.states) |->
        Mul(prev[j], transition_probability(m, m.states[j], m.states[k]))]

\* a row of the dynamic programme: delta (the best score of a path ending in
\* each state) and psi (the backpointer: the maximizing previous state)
row_of(m, o, steps) ==
    [delta |-> [k \in 1..Len(m.states) |->
                  Mul(steps[k][ArgMax(steps[k], Len(m.states))],
                      emission_probability(m, m.states[k], o))],
     psi |-> [k \in 1..Len(m.states) |-> ArgMax(steps[k], Len(m.states))]]

\* initialization: delta_1(tag) = P(tag | start) * P(o_1 | tag)
first_row(m, o) ==
    [delta |-> [k \in 1..Len(m.states) |->
                  Mul(transition_probability(m, START, m.states[k]),
                      emission_probability(m, m.states[k], o))],
     psi |-> [k \in 1..Len(m.states) |-> 0]]

\* recurrence: row t from row t - 1
extend_table(m, seq, t, rows) ==
    Append(rows, row_of(m, seq[t],
                        [k \in 1..Len(m.states) |-> step(m, rows[t - 1].delta, k)]))

\* rows 1..t of the dynamic programme
RECURSIVE viterbi_table(_, _, _)
viterbi_table(m, seq, t) ==
    IF t = 1 THEN <<first_row(m, seq[1])>>
    ELSE extend_table(m, seq, t, viterbi_table(m, seq, t - 1))

\* termination: delta_n(tag) * P(end | tag)
terminal(m, delta) ==
    [k \in 1..Len(m.states) |->
        Mul(delta[k], transition_probability(m, m.states[k], END))]

\* the state indices of the best path that ends in state k at position t
RECURSIVE backtrace(_, _, _)
backtrace(rows, t, k) ==
    IF t = 1 THEN <<k>> ELSE Append(backtrace(rows, t - 1, rows[t].psi[k]), k)

\* [(0, start), (1, state_1), ..., (n, state_n), (n + 1, end)]
state_path_of(m, tags) ==
    [i \in 1..(Len(tags) + 2) |->
        IF i = 1 THEN <<0, START>>
        ELSE IF i = Len(tags) + 2 THEN <<i - 1, END>>
        ELSE <<i - 1, m.states[tags[i - 1]]>>]

\* the path is None when the best terminal score is zero
viterbi_finish(m, rows, term) ==
    IF IsZero(term[ArgMax(term, Len(m.states))])
    THEN [raised |-> FALSE, found |-> FALSE, path |-> <<>>, model |-> m]
    ELSE [raised |-> FALSE, found |-> TRUE,
          path |-> state_path_of(m, backtrace(rows, Len(rows),
                                              ArgMax(term, Len(m.states)))),
          model |-> m]

viterbi_rows(m, rows) == viterbi_finish(m, rows, terminal(m, rows[Len(rows)].delta))

\* model.viterbi(seq): raises on a model that was not baked; the path is None
\* when no path through the lattice has a non-zero probability
hmm_viterbi(m, seq) ==
    IF ~m.baked
    THEN [raised |-> TRUE, found |-> FALSE, path |-> <<>>, model |-> m]
    ELSE IF Len(m.states) = 0
    THEN [raised |-> FALSE, found |-> FALSE, path |-> <<>>, model |-> m]
    ELSE viterbi_rows(m, viterbi_table(m, seq, Len(seq)))

\* model.viterbi for either tagger
viterbi(model, seq) ==
    IF model.kind = "mfc" THEN mfc_viterbi(model, seq) ELSE hmm_viterbi(model, seq)

-----------------------------------------------------------------------------
(* The decoding helpers *)

\* variant: the membership test inverted
replace_unknown_inverted(sequence, training_vocab) ==
    [i \in 1..Len(sequence) |->
        IF sequence[i] \notin training_vocab THEN sequence[i] ELSE NAN]

replace_unknown(sequence, training_vocab) ==
    [i \in 1..Len(sequence) |->
        IF sequence[i] \in training_vocab THEN sequence[i] ELSE NAN]

\* variant: the slice shifted by one, state_path[0:-2]
StripEndsShifted(state_path) == SubSeq(state_path, 1, Len(state_path) - 2)

\* variant: only the start state dropped, state_path[1:]
StripStart(state_path) == SubSeq(state_path, 2, Len(state_path))

\* state_path[1:-1]
StripEnds(state_path) == SubSeq(state_path, 2, Len(state_path) - 1)

\* variant: a missing path read as an empty path, (state_path or [])[1:-1]
names_of_or_empty(r) ==
    IF r.raised
    THEN [ok |-> FALSE, err |-> "ModelError", tags |-> <<>>, model |-> r.model]
    ELSE [ok |-> TRUE, err |-> "none",
          tags |-> [i \in 1..Len(StripEnds(r.path)) |-> StripEnds(r.path)[i][2]],
          model |-> r.model]

\* [state[1].name for state in state_path[1:-1]]; an exception when viterbi
\* raised, or when it returned no path (None is not subscriptable)
names_of(r) ==
    IF r.raised
    THEN [ok |-> FALSE, err |-> "ModelError", tags |-> <<>>, model |-> r.model]
    ELSE IF ~r.found
    THEN [ok |-> FALSE, err |-> "TypeError", tags |-> <<>>, model |-> r.model]
    ELSE [ok |-> TRUE, err |-> "none",
          tags |-> [i \in 1..Len(StripEnds(r.path)) |-> StripEnds(r.path)[i][2]],
          model |-> r.model]

\* simplify_decoding(X, model)
simplify_decoding(X, model, training_vocab) ==
    names_of(viterbi(model, replace_unknown(X, training_vocab)))

Min(a, b) == IF a <= b THEN a ELSE b

\* sum(p == t for p, t in zip(most_likely_tags, actual_tags))
Matches(most_likely_tags, actual_tags) ==
    Cardinality({p \in 1..Min(Len(most_likely_tags), Len(actual_tags)) :
                    most_likely_tags[p] = actual_tags[p]})

\* the loop over zip(X, Y): a sentence whose decoding raised adds nothing to
\* correct, and every sentence adds its length to total_predictions
RECURSIVE accuracy_loop(_, _, _, _, _, _, _)
RECURSIVE accuracy_step(_, _, _, _, _, _, _)
\* variant: the length added inside the try block, after the decoding
accuracy_step_total_in_try(X, Y, training_vocab, i, correct, total_predictions, r) ==
    accuracy_loop(X, Y, r.model, training_vocab, i + 1,
                  IF r.ok THEN correct + Matches(r.tags, Y[i]) ELSE correct,
                  IF r.ok THEN total_predictions + Len(X[i]) ELSE total_predictions)

accuracy_step(X, Y, training_vocab, i, correct, total_predictions, r) ==
    accuracy_loop(X, Y, r.model, training_vocab, i + 1,
                  IF r.ok THEN correct + Matches(r.tags, Y[i]) ELSE correct,
                  total_predictions + Len(X[i]))

accuracy_loop(X, Y, model, training_vocab, i, correct, total_predictions) ==
    IF i > Min(Len(X), Len(Y))
    THEN [correct |-> correct, total |-> total_predictions, model |-> model]
    ELSE accuracy_step(X, Y, training_vocab, i, correct, total_predictions,
                       simplify_decoding(X[i], model, training_vocab))

\* return correct / total_predictions: a ZeroDivisionError when no token was seen
accuracy_result(r) ==
    [err |-> IF r.total = 0 THEN "ZeroDivisionError" ELSE "none",
     correct |-> r.correct, total |-> r.total, model |-> r.model]

accuracy(X, Y, model, training_vocab) ==
    accuracy_result(accuracy_loop(X, Y, model, training_vocab, 1, 0, 0))

\* data.testing_set.keys[:3]: the number of sentences the example cells decode
ExampleKeys == 3

\* for key in data.testing_set.keys[:3]: print(simplify_decoding(words, model)):
\* the tagger after the sentences i.. are decoded; an exception ends the cell
RECURSIVE examples_loop(_, _, _, _)
examples_step(X, training_vocab, i, r) ==
    IF r.ok THEN examples_loop(X, r.model, training_vocab, i + 1)
    ELSE [err |-> r.err, model |-> r.model]

examples_loop(X, model, training_vocab, i) ==
    IF i > Min(ExampleKeys, Len(X)) THEN [err |-> "none", model |-> model]
    ELSE examples_step(X, training_vocab, i,
                       simplify_decoding(X[i], model, training_vocab))

-----------------------------------------------------------------------------
(* The construction of the HMM tagger *)

\* the first loop: one state per tag of emission_counts, emitting each word
\* with probability count / tag_unigrams[tag]
RECURSIVE add_states(_, _, _, _)
add_states(m, emission_counts, tag_unigrams, i) ==
    IF i > Len(emission_counts) THEN m
    ELSE LET tag == emission_counts[i][1]
             total == DictGet(tag_unigrams, tag)
             counts == emission_counts[i][2]
             prob_dist == [k \in 1..Len(counts) |->
                             <<counts[k][1], Frac(counts[k][2], total)>>]
         IN  add_states(add_state(m, tag, prob_dist), emission_counts,
                        tag_unigrams, i + 1)

\* the second loop, over the keys of tag_bigrams in order: three transitions
\* per bigram; tag_starts[b0] and tag_ends[b0] raise KeyError for a tag that
\* starts, or ends, no training sentence, and the loop stops there
RECURSIVE add_transitions(_, _, _, _, _, _, _)
add_transitions(m, tag_unigrams, tag_bigrams, tag_starts, tag_ends, len_data_y, i) ==
    IF i > Len(tag_bigrams) THEN [err |-> "none", model |-> m]
    ELSE LET bigram == tag_bigrams[i][1]
             b0 == bigram[1]
             b1 == bigram[2]
         IN  IF ~DictHas(tag_starts, b0) THEN [err |-> "KeyError", model |-> m]
             ELSE LET m1 == add_transition(m, START, b0,
                                Frac(DictGet(tag_starts, b0), len_data_y))
                      m2 == add_transition(m1, b0, b1,
                                Frac(DictGet(tag_bigrams, bigram),
                                     DictGet(tag_unigrams, b0)))
                  IN  IF ~DictHas(tag_ends, b0)
                      THEN [err |-> "KeyError", model |-> m2]
                      ELSE add_transitions(
                              add_transition(m2, b0, END,
                                  Frac(DictGet(tag_ends, b0), len_data_y)),
                              tag_unigrams, tag_bigrams, tag_starts, tag_ends,
                              len_data_y, i + 1)

\* basic_model.bake() runs only when both loops ran to their end
bake_if_built(r) ==
    IF r.err = "none" THEN [err |-> "none", model |-> bake(r.model)] ELSE r

\* the whole construction cell
build_basic_model(emission_counts, tag_unigrams, tag_bigrams, tag_starts, tag_ends, len_data_y) ==
    bake_if_built(add_transitions(
        add_states(HiddenMarkovModel, emission_counts, tag_unigrams, 1),
        tag_unigrams, tag_bigrams, tag_starts, tag_ends, len_data_y, 1))

-----------------------------------------------------------------------------
(* The corpora the notebook is run on *)

\* the tagged sentences of n words
Sentences(n) ==
    {[words |-> w, tags |-> t] : w \in [1..n -> Words], t \in [1..n -> Tags]}

\* the corpora of exactly k tokens, every sentence non-empty
RECURSIVE CorporaOf(_)
CorporaOf(k) ==
    IF k = 0 THEN {<<>>}
    ELSE UNION {{<<s>> \o c : s \in Sentences(n), c \in CorporaOf(k - n)} : n \in 1..k}

\* the corpora of 1..MaxTokens tokens.  Words and tags are opaque keys to the
\* program, so the first token is fixed to one word and one tag.
Corpora ==
    {c \in UNION {CorporaOf(k) : k \in 1..MaxTokens} :
        c[1].words[1] = "Spot" /\ c[1].tags[1] = "NOUN"}

\* the corpora of 1..MaxCallTokens tokens, for the runs that go on with
\* repeated calls
CallCorpora ==
    {c \in UNION {CorporaOf(k) : k \in 1..MaxCallTokens} :
        c[1].words[1] = "Spot" /\ c[1].tags[1] = "NOUN"}

\* the two sentences of the Dataset documentation, in either order
SeeSpotRun == [words |-> <<"See", "Spot", "run">>, tags |-> <<"VERB", "NOUN", "VERB">>]
SpotRan == [words |-> <<"Spot", "ran">>, tags |-> <<"NOUN", "VERB">>]
ExampleCorpora == {<<SeeSpotRun, SpotRan>>, <<SpotRan, SeeSpotRun>>}

\* the observation sequences of 1..MaxObs words over an alphabet
Observations(alphabet) == UNION {[1..n -> alphabet] : n \in 1..MaxObs}

-----------------------------------------------------------------------------
(* State *)

VARIABLES
    data,               \* [training_set, testing_set], each [X, Y]
    pc,                 \* the next cell of the notebook to run
    emission_counts,    \* pair_counts(training Y, training X)
    word_counts,        \* pair_counts(training X, training Y)
    mfc_model,          \* the MFCTagger
    mfc_training_acc, mfc_testing_acc,
    tag_unigrams, tag_bigrams, tag_starts, tag_ends,
    basic_model,        \* the HiddenMarkovModel
    build_err,          \* the exception of the construction cell, or "none"
    hmm_training_acc, hmm_testing_acc,
    last,               \* the last simplify_decoding call and its outcome
    direct              \* the last call of pair_counts or accuracy made by hand

vars == <<data, pc, emission_counts, word_counts, mfc_model, mfc_training_acc,
          mfc_testing_acc, tag_unigrams, tag_bigrams, tag_starts, tag_ends,
          basic_model, build_err, hmm_training_acc, hmm_testing_acc, last,
          direct>>

NoAcc == [err |-> "unset", correct |-> 0, total |-> 0]
NoCall == [model |-> "none", X |-> <<>>, replaced |-> <<>>, ok |-> FALSE,
           err |-> "none", tags |-> <<>>]
NoDirect == [fn |-> "none", A |-> <<>>, B |-> <<>>, err |-> "none", out |-> <<>>]
AccOf(r) == [err |-> r.err, correct |-> r.correct, total |-> r.total]

Init ==
    /\ \E corpus \in Corpora \cup ExampleCorpora : \E k \in 1..Len(corpus) :
           data = [training_set |-> SubsetOf(SubSeq(corpus, 1, k)),
                   testing_set |-> SubsetOf(SubSeq(corpus, k + 1, Len(corpus)))]
    /\ pc = "emission_counts"
    /\ emission_counts = <<>>
    /\ word_counts = <<>>
    /\ mfc_model = MFCTagger(<<>>)
    /\ mfc_training_acc = NoAcc
    /\ mfc_testing_acc = NoAcc
    /\ tag_unigrams = <<>>
    /\ tag_bigrams = <<>>
    /\ tag_starts = <<>>
    /\ tag_ends = <<>>
    /\ basic_model = HiddenMarkovModel
    /\ build_err = "none"
    /\ hmm_training_acc = NoAcc
    /\ hmm_testing_acc = NoAcc
    /\ last = NoCall
    /\ direct = NoDirect

-----------------------------------------------------------------------------
(* The cells, in the order of the notebook *)

CellEmissionCounts ==
    /\ pc = "emission_counts"
    /\ emission_counts' = pair_counts(data.training_set.Y, data.training_set.X).results
    /\ pc' = "word_counts"
    /\ UNCHANGED <<data, word_counts, mfc_model, mfc_training_acc, mfc_testing_acc,
                   tag_unigrams, tag_bigrams, tag_starts, tag_ends, basic_model,
                   build_err, hmm_training_acc, hmm_testing_acc, last,
                   direct>>

CellWordCounts ==
    /\ pc = "word_counts"
    /\ word_counts' = pair_counts(data.training_set.X, data.training_set.Y).results
    /\ pc' = "mfc_table"
    /\ UNCHANGED <<data, emission_counts, mfc_model, mfc_training_acc,
                   mfc_testing_acc, tag_unigrams, tag_bigrams, tag_starts, tag_ends,
                   basic_model, build_err, hmm_training_acc, hmm_testing_acc, last,
                   direct>>

CellMfcTable ==
    /\ pc = "mfc_table"
    /\ mfc_model' = MFCTagger(mfc_table_of(word_counts, vocab(data.training_set)))
    /\ pc' = "mfc_examples"
    /\ UNCHANGED <<data, emission_counts, word_counts, mfc_training_acc,
                   mfc_testing_acc, tag_unigrams, tag_bigrams, tag_starts, tag_ends,
                   basic_model, build_err, hmm_training_acc, hmm_testing_acc, last,
                   direct>>

\* the first testing sentences decoded with the most frequent class tagger,
\* whose defaultdict keeps the keys the lookups inserted
CellMfcExamples ==
    /\ pc = "mfc_examples"
    /\ mfc_model' = examples_loop(data.testing_set.X, mfc_model,
                                  vocab(data.training_set), 1).model
    /\ pc' = "mfc_acc"
    /\ UNCHANGED <<data, emission_counts, word_counts, mfc_training_acc,
                   mfc_testing_acc, tag_unigrams, tag_bigrams, tag_starts, tag_ends,
                   basic_model, build_err, hmm_training_acc, hmm_testing_acc, last,
                   direct>>

\* mfc_training_acc, then mfc_testing_acc; the tagger's defaultdict keeps the
\* keys its lookups inserted
SetMfcAccuracy(tr, te) ==
    /\ mfc_training_acc' = AccOf(tr)
    /\ mfc_testing_acc' = AccOf(te)
    /\ mfc_model' = te.model

MfcTestingAccuracy(tr) ==
    SetMfcAccuracy(tr, accuracy(data.testing_set.X, data.testing_set.Y, tr.model,
                                vocab(data.training_set)))

CellMfcAccuracy ==
    /\ pc = "mfc_acc"
    /\ MfcTestingAccuracy(accuracy(data.training_set.X, data.training_set.Y,
                                   mfc_model, vocab(data.training_set)))
    /\ pc' = "tag_unigrams"
    /\ UNCHANGED <<data, emission_counts, word_counts, tag_unigrams, tag_bigrams,
                   tag_starts, tag_ends, basic_model, build_err, hmm_training_acc,
                   hmm_testing_acc, last,
                   direct>>

CellUnigrams ==
    /\ pc = "tag_unigrams"
    /\ tag_unigrams' = unigram_counts(data.training_set.Y)
    /\ pc' = "tag_bigrams"
    /\ UNCHANGED <<data, emission_counts, word_counts, mfc_model, mfc_training_acc,
                   mfc_testing_acc, tag_bigrams, tag_starts, tag_ends, basic_model,
                   build_err, hmm_training_acc, hmm_testing_acc, last,
                   direct>>

CellBigrams ==
    /\ pc = "tag_bigrams"
    /\ tag_bigrams' = bigram_counts(data.training_set.Y)
    /\ pc' = "tag_starts"
    /\ UNCHANGED <<data, emission_counts, word_counts, mfc_model, mfc_training_acc,
                   mfc_testing_acc, tag_unigrams, tag_starts, tag_ends, basic_model,
                   build_err, hmm_training_acc, hmm_testing_acc, last,
                   direct>>

CellStarts ==
    /\ pc = "tag_starts"
    /\ tag_starts' = starting_counts(data.training_set.Y)
    /\ pc' = "tag_ends"
    /\ UNCHANGED <<data, emission_counts, word_counts, mfc_model, mfc_training_acc,
                   mfc_testing_acc, tag_unigrams, tag_bigrams, tag_ends, basic_model,
                   build_err, hmm_training_acc, hmm_testing_acc, last,
                   direct>>

CellEnds ==
    /\ pc = "tag_ends"
    /\ tag_ends' = ending_counts(data.training_set.Y)
    /\ pc' = "basic_model"
    /\ UNCHANGED <<data, emission_counts, word_counts, mfc_model, mfc_training_acc,
                   mfc_testing_acc, tag_unigrams, tag_bigrams, tag_starts, basic_model,
                   build_err, hmm_training_acc, hmm_testing_acc, last,
                   direct>>

\* the construction cell; after an exception basic_model stays bound to the
\* model as far as it was built
SetBasicModel(r) ==
    /\ basic_model' = r.model
    /\ build_err' = r.err

CellBasicModel ==
    /\ pc = "basic_model"
    /\ SetBasicModel(build_basic_model(emission_counts, tag_unigrams, tag_bigrams,
                                       tag_starts, tag_ends,
                                       NumSentences(data.training_set)))
    /\ pc' = "hmm_acc"
    /\ UNCHANGED <<data, emission_counts, word_counts, mfc_model, mfc_training_acc,
                   mfc_testing_acc, tag_unigrams, tag_bigrams, tag_starts, tag_ends,
                   hmm_training_acc, hmm_testing_acc, last,
                   direct>>

\* hmm_training_acc, then hmm_testing_acc
CellHmmAccuracy ==
    /\ pc = "hmm_acc"
    /\ hmm_training_acc' = AccOf(accuracy(data.training_set.X, data.training_set.Y,
                                          basic_model, vocab(data.training_set)))
    /\ hmm_testing_acc' = AccOf(accuracy(data.testing_set.X, data.testing_set.Y,
                                         basic_model, vocab(data.training_set)))
    /\ pc' = "hmm_examples"
    /\ UNCHANGED <<data, emission_counts, word_counts, mfc_model, mfc_training_acc,
                   mfc_testing_acc, tag_unigrams, tag_bigrams, tag_starts, tag_ends,
                   basic_model, build_err, last,
                   direct>>

\* the first testing sentences decoded with the HMM tagger; a sentence that
\* cannot be decoded ends the cell with its exception
CellHmmExamples ==
    /\ pc = "hmm_examples"
    /\ basic_model' = examples_loop(data.testing_set.X, basic_model,
                                    vocab(data.training_set), 1).model
    /\ pc' = "ready"
    /\ UNCHANGED <<data, emission_counts, word_counts, mfc_model, mfc_training_acc,
                   mfc_testing_acc, tag_unigrams, tag_bigrams, tag_starts, tag_ends,
                   build_err, hmm_training_acc, hmm_testing_acc, last, direct>>

\* the outcome of a call, and the model it leaves behind
SetLast(name, X, r) ==
    /\ last' = [model |-> name, X |-> X,
                replaced |-> replace_unknown(X, vocab(data.training_set)),
                ok |-> r.ok, err |-> r.err, tags |-> r.tags]
    /\ mfc_model' = IF name = "mfc" THEN r.model ELSE mfc_model
    /\ basic_model' = IF name = "hmm" THEN r.model ELSE basic_model

\* a call simplify_decoding(X, mfc_model) or simplify_decoding(X, basic_model),
\* made once the notebook has run
Decode ==
    /\ pc = "ready"
    /\ pc' = "called"
    /\ \E name \in {"mfc", "hmm"} :
       \E X \in Observations(Words \cup vocab(data.training_set)) :
          SetLast(name, X,
                  simplify_decoding(X, IF name = "mfc" THEN mfc_model ELSE basic_model,
                                    vocab(data.training_set)))
    /\ UNCHANGED <<data, emission_counts, word_counts, mfc_training_acc,
                   mfc_testing_acc, tag_unigrams, tag_bigrams, tag_starts, tag_ends,
                   build_err, hmm_training_acc, hmm_testing_acc,
                   direct>>

\* a further call, made after an earlier one on the same taggers
DecodeAgain ==
    /\ pc = "called"
    /\ pc' = "called"
    /\ \E name \in {"mfc", "hmm"} :
       \E X \in Observations(Words \cup vocab(data.training_set)) :
          SetLast(name, X,
                  simplify_decoding(X, IF name = "mfc" THEN mfc_model ELSE basic_model,
                                    vocab(data.training_set)))
    /\ UNCHANGED <<data, emission_counts, word_counts, mfc_training_acc,
                   mfc_testing_acc, tag_unigrams, tag_bigrams, tag_starts, tag_ends,
                   build_err, hmm_training_acc, hmm_testing_acc,
                   direct>>

Next ==
    \/ CellEmissionCounts
    \/ CellWordCounts
    \/ CellMfcTable
    \/ CellMfcExamples
    \/ CellMfcAccuracy
    \/ CellUnigrams
    \/ CellBigrams
    \/ CellStarts
    \/ CellEnds
    \/ CellBasicModel
    \/ CellHmmAccuracy
    \/ CellHmmExamples
    \/ Decode

Spec == Init /\ [][Next]_vars

\* The notebook run on a small corpus and followed by any number of calls
InitCalls ==
    /\ \E corpus \in CallCorpora : \E k \in 1..Len(corpus) :
           data = [training_set |-> SubsetOf(SubSeq(corpus, 1, k)),
                   testing_set |-> SubsetOf(SubSeq(corpus, k + 1, Len(corpus)))]
    /\ pc = "emission_counts"
    /\ emission_counts = <<>>
    /\ word_counts = <<>>
    /\ mfc_model = MFCTagger(<<>>)
    /\ mfc_training_acc = NoAcc
    /\ mfc_testing_acc = NoAcc
    /\ tag_unigrams = <<>>
    /\ tag_bigrams = <<>>
    /\ tag_starts = <<>>
    /\ tag_ends = <<>>
    /\ basic_model = HiddenMarkovModel
    /\ build_err = "none"
    /\ hmm_training_acc = NoAcc
    /\ hmm_testing_acc = NoAcc
    /\ last = NoCall
    /\ direct = NoDirect

NextCalls ==
    \/ CellEmissionCounts
    \/ CellWordCounts
    \/ CellMfcTable
    \/ CellMfcExamples
    \/ CellMfcAccuracy
    \/ CellUnigrams
    \/ CellBigrams
    \/ CellStarts
    \/ CellEnds
    \/ CellBasicModel
    \/ CellHmmAccuracy
    \/ CellHmmExamples
    \/ Decode
    \/ DecodeAgain

SpecCalls == InitCalls /\ [][NextCalls]_vars

\* One call of pair_counts or of accuracy made by hand, on collections of any
\* shape, once the most frequent class tagger of a one-sentence corpus is built

\* the collections of 0..MaxObs sequences of 1..MaxObs elements
Collections(alphabet) ==
    UNION {[1..n -> Observations(alphabet)] : n \in 0..MaxObs}

InitDirect ==
    /\ data = [training_set |-> SubsetOf(<<SpotRan>>), testing_set |-> SubsetOf(<<>>)]
    /\ pc = "mfc_acc"
    /\ emission_counts = pair_counts(<<SpotRan.tags>>, <<SpotRan.words>>).results
    /\ word_counts = pair_counts(<<SpotRan.words>>, <<SpotRan.tags>>).results
    /\ mfc_model = MFCTagger(mfc_table_of(
                        pair_counts(<<SpotRan.words>>, <<SpotRan.tags>>).results,
                        vocab(SubsetOf(<<SpotRan>>))))
    /\ mfc_training_acc = NoAcc
    /\ mfc_testing_acc = NoAcc
    /\ tag_unigrams = <<>>
    /\ tag_bigrams = <<>>
    /\ tag_starts = <<>>
    /\ tag_ends = <<>>
    /\ basic_model = HiddenMarkovModel
    /\ build_err = "none"
    /\ hmm_training_acc = NoAcc
    /\ hmm_testing_acc = NoAcc
    /\ last = NoCall
    /\ direct = NoDirect

\* the outcome of pair_counts(A, B)
SetPairCounts(A, B, r) ==
    direct' = [fn |-> "pair_counts", A |-> A, B |-> B, err |-> r.err, out |-> r.results]

\* pair_counts(A, B) on tag sequences A and word sequences B
CallPairCounts ==
    /\ direct.fn = "none"
    /\ \E A \in Collections(Tags) : \E B \in Collections(Words) :
          SetPairCounts(A, B, pair_counts(A, B))
    /\ UNCHANGED <<data, pc, emission_counts, word_counts, mfc_model,
                   mfc_training_acc, mfc_testing_acc, tag_unigrams, tag_bigrams,
                   tag_starts, tag_ends, basic_model, build_err, hmm_training_acc,
                   hmm_testing_acc, last>>

\* the outcome of accuracy(X, Y, mfc_model)
SetAccuracy(X, Y, r) ==
    /\ direct' = [fn |-> "accuracy", A |-> X, B |-> Y, err |-> r.err,
                  out |-> <<r.correct, r.total>>]
    /\ mfc_model' = r.model

\* accuracy(X, Y, mfc_model) on word sequences X and tag sequences Y
CallAccuracy ==
    /\ direct.fn = "none"
    /\ \E X \in Collections(Words) : \E Y \in Collections(Tags) :
          SetAccuracy(X, Y, accuracy(X, Y, mfc_model, vocab(data.training_set)))
    /\ UNCHANGED <<data, pc, emission_counts, word_counts, mfc_training_acc,
                   mfc_testing_acc, tag_unigrams, tag_bigrams, tag_starts, tag_ends,
                   basic_model, build_err, hmm_training_acc, hmm_testing_acc, last>>

NextDirect ==
    \/ CallPairCounts
    \/ CallAccuracy

SpecDirect == InitDirect /\ [][NextDirect]_vars

-----------------------------------------------------------------------------
(* Vocabulary of the properties *)

Cells == <<"emission_counts", "word_counts", "mfc_table", "mfc_examples", "mfc_acc",
           "tag_unigrams", "tag_bigrams", "tag_starts", "tag_ends", "basic_model",
           "hmm_acc", "hmm_examples", "ready", "called">>

CellIndex(c) == CHOOSE i \in 1..Len(Cells) : Cells[i] = c

\* the cell c has run
Ran(c) == CellIndex(pc) > CellIndex(c)

\* every word and every tag a corpus may hold
AllWords == Words \cup {"See", "run"}
AllTags == Tags

\* the positions <<i, j>> of a collection of sequences
Positions(sequences) ==
    UNION {{<<i, j>> : j \in 1..Len(sequences[i])} : i \in 1..Len(sequences)}

\* the positions <<i, k>> that have a successor in their own sequence
InnerPositions(sequences) ==
    {<<i, k>> \in Positions(sequences) : k + 1 <= Len(sequences[i])}

NumTokens(sequences) == Cardinality(Positions(sequences))

\* d[k], or 0 for an absent key
CountOf(d, k) == IF DictHas(d, k) THEN DictGet(d, k) ELSE 0

\* d[a][b], or 0 for an absent key
PairCountOf(d, a, b) == IF DictHas(d, a) THEN CountOf(DictGet(d, a), b) ELSE 0

\* the sum of d[a][b] over all a, b
PairTotal(d) == SeqSum([i \in 1..Len(d) |-> DictSum(d[i][2])])

\* C8: the unigram counts sum to the number of training tokens, and the
\* starting counts and the ending counts each sum to the number of training
\* sentences.
C8_CountTotals ==
    /\ Ran("tag_unigrams") =>
          DictSum(tag_unigrams) = NumTokens(data.training_set.Y)
    /\ Ran("tag_starts") =>
          DictSum(tag_starts) = NumSentences(data.training_set)
    /\ Ran("tag_ends") =>
          /\ DictSum(tag_ends) = NumSentences(data.training_set)
          /\ DictSum(tag_ends) = DictSum(tag_starts)

\* the counters have run on a training set of several sentences, one of them
\* a single word, that start with different tags
C8_Witness ==
    /\ Ran("tag_ends")
    /\ NumSentences(data.training_set) >= 2
    /\ Len(tag_starts) = 2
    /\ \E i \in 1..NumSentences(data.training_set) : Len(data.training_set.Y[i]) = 1
    /\ DictSum(tag_unigrams) > DictSum(tag_ends)

\* C9: bigram_counts[(a, b)] is the number of positions k of a sentence with
\* seq[k] = a and seq[k + 1] = b; no pair spans two sentences, so the counts
\* sum to the sum over the sentences of (length - 1).
C9_BigramsWithinSentences ==
    Ran("tag_bigrams") =>
        /\ \A a \in AllTags : \A b \in AllTags :
              CountOf(tag_bigrams, <<a, b>>) =
                 Cardinality({q \in InnerPositions(data.training_set.Y) :
                                 /\ data.training_set.Y[q[1]][q[2]] = a
                                 /\ data.training_set.Y[q[1]][q[2] + 1] = b})
        /\ DictSum(tag_bigrams) =
              NumTokens(data.training_set.Y) - NumSentences(data.training_set)

\* the bigrams of two or more sentences were counted, and the last tag of a
\* sentence with the first tag of the next is a pair
\* that was not counted
C9_Witness ==
    /\ Ran("tag_bigrams")
    /\ Len(tag_bigrams) >= 1
    /\ \E i \in 1..(NumSentences(data.training_set) - 1) :
          ~DictHas(tag_bigrams,
                   <<data.training_set.Y[i][Len(data.training_set.Y[i])],
                     data.training_set.Y[i + 1][1]>>)

\* C10: pair_counts(A, B)[a][b] is the number of positions (i, j) with
\* A[i][j] = a and B[i][j] = b, and the counts sum to the number of tokens;
\* checked for pair_counts(tags, words) and pair_counts(words, tags).
C10_PairCounts ==
    /\ Ran("emission_counts") =>
          /\ \A a \in AllTags : \A b \in AllWords :
                PairCountOf(emission_counts, a, b) =
                   Cardinality({q \in Positions(data.training_set.Y) :
                                   /\ data.training_set.Y[q[1]][q[2]] = a
                                   /\ data.training_set.X[q[1]][q[2]] = b})
          /\ PairTotal(emission_counts) = NumTokens(data.training_set.Y)
    /\ Ran("word_counts") =>
          /\ \A a \in AllWords : \A b \in AllTags :
                PairCountOf(word_counts, a, b) =
                   Cardinality({q \in Positions(data.training_set.X) :
                                   /\ data.training_set.X[q[1]][q[2]] = a
                                   /\ data.training_set.Y[q[1]][q[2]] = b})
          /\ PairTotal(word_counts) = NumTokens(data.training_set.X)

\* both tables were counted, a pair occurs twice, and a word has two tags
C10_Witness ==
    /\ Ran("word_counts")
    /\ \E a \in AllTags : \E b \in AllWords : PairCountOf(emission_counts, a, b) >= 2
    /\ \E i \in 1..Len(word_counts) : Len(word_counts[i][2]) = 2

\* C6: replace_unknown returns a sequence of the length of its input that
\* holds 'nan' where the input word is absent from the training vocabulary
\* and the input word elsewhere.
C6_ReplaceUnknown ==
    pc = "called" =>
        /\ Len(last.replaced) = Len(last.X)
        /\ \A i \in 1..Len(last.X) :
              /\ last.X[i] \notin vocab(data.training_set) => last.replaced[i] = NAN
              /\ last.X[i] \in vocab(data.training_set) => last.replaced[i] = last.X[i]

\* a call on a sequence of a known word and an unknown word
C6_Witness ==
    /\ pc = "called"
    /\ \E i \in 1..Len(last.X) : last.X[i] \in vocab(data.training_set)
    /\ \E i \in 1..Len(last.X) : last.X[i] \notin vocab(data.training_set)
    /\ \E i \in 1..Len(last.X) : last.replaced[i] = NAN

-----------------------------------------------------------------------------
(* The score of a tag path, computed path by path *)

StateNames(m) == {m.states[k] : k \in 1..Len(m.states)}

\* the tag paths of length n
TagPaths(m, n) == [1..n -> StateNames(m)]

\* the words for which the state of a tag holds an emission probability
Emitted(m, tag) == DictKeys(DictGet(m.dist, tag))

\* the emission factor of the score: P(o | tag), a missing emission counted as 1
EmissionFactor(m, tag, o) ==
    IF o \in Emitted(m, tag) THEN DictGet(DictGet(m.dist, tag), o) ELSE One

\* the transition factor of the score: the probability given to the edge when
\* it was created, zero when it was not
TransitionFactor(m, a, b) ==
    IF \E e \in 1..Len(m.trans) : m.trans[e][1] = <<a, b>>
    THEN DictGet(m.trans, <<a, b>>) ELSE Zero

\* P(tag_1|start) * prod P(tag_t|tag_{t-1}) * prod P(o_t|tag_t) up to t
RECURSIVE prefix_score(_, _, _, _)
prefix_score(m, seq, path, t) ==
    IF t = 0 THEN One
    ELSE Mul(prefix_score(m, seq, path, t - 1),
             Mul(TransitionFactor(m, IF t = 1 THEN START ELSE path[t - 1], path[t]),
                 EmissionFactor(m, path[t], seq[t])))

\* the score of a whole path, P(end|tag_n) included
PathScore(m, seq, path) ==
    Mul(prefix_score(m, seq, path, Len(seq)),
        TransitionFactor(m, path[Len(seq)], END))

\* some tag path has a non-zero probability
Solvable(m, seq) == \E q \in TagPaths(m, Len(seq)) : ~IsZero(PathScore(m, seq, q))

\* the call made was simplify_decoding(X, basic_model) on a baked model
HmmCalled == pc = "called" /\ last.model = "hmm" /\ basic_model.baked

\* C1: when some tag path has a non-zero score, a missing emission counted as
\* 1, decode returns a tag path of the length of the observations whose score
\* is the maximum of the score over all tag paths of that length.
C1_ViterbiArgMax ==
    (HmmCalled /\ Solvable(basic_model, last.replaced)) =>
        /\ last.ok
        /\ last.tags \in TagPaths(basic_model, Len(last.X))
        /\ \A q \in TagPaths(basic_model, Len(last.X)) :
              ~Less(PathScore(basic_model, last.replaced, last.tags),
                    PathScore(basic_model, last.replaced, q))

\* a path was returned for two or more observations, by a model of two
\* states, where another path has a smaller, non-zero score, and the path
\* returned passes through a tag that never emitted the known word it tags
C1_Witness ==
    /\ HmmCalled
    /\ last.ok
    /\ Len(last.X) >= 2
    /\ Len(basic_model.states) = 2
    /\ \E t \in 1..Len(last.X) :
          /\ last.replaced[t] # NAN
          /\ last.replaced[t] \notin Emitted(basic_model, last.tags[t])
    /\ \E q \in TagPaths(basic_model, Len(last.X)) :
          /\ ~IsZero(PathScore(basic_model, last.replaced, q))
          /\ Less(PathScore(basic_model, last.replaced, q),
                  PathScore(basic_model, last.replaced, last.tags))

\* C2 (as claimed): trained on ("See","Spot","run") / ("VERB","NOUN","VERB") and
\* ("Spot","ran") / ("NOUN","VERB"), the model is built and
\* decode(("Spot","ran")) returns ("NOUN","VERB").
C2_ExampleDecodes ==
    (/\ pc = "called"
     /\ data.training_set = SubsetOf(<<SeeSpotRun, SpotRan>>)
     /\ last.model = "hmm"
     /\ last.X = <<"Spot", "ran">>) =>
        /\ build_err = "none"
        /\ basic_model.baked
        /\ last.ok
        /\ last.tags = <<"NOUN", "VERB">>

\* C3 (as claimed): decode on any non-empty sentence returns a tag sequence
\* of the length of the input.
C3_AlwaysDecodes ==
    HmmCalled => (last.ok /\ Len(last.tags) = Len(last.X))

\* C3 (amended): decode on a non-empty sentence either returns a tag sequence
\* of the length of the input or raises, and it raises only when no tag path
\* has a non-zero score, a missing emission counted as 1; neither an unknown
\* word, replaced by the sentinel, nor a known word its tag never emitted
\* makes it raise.
C3_DecodesOrBlocked ==
    HmmCalled =>
        /\ last.ok => Len(last.tags) = Len(last.X)
        /\ ~last.ok => ~Solvable(basic_model, last.replaced)

\* a sentence with a known and an unknown word was decoded to two tags
C3_Witness ==
    /\ HmmCalled
    /\ last.ok
    /\ Len(last.tags) = 2
    /\ \E i \in 1..Len(last.X) : last.replaced[i] = NAN
    /\ \E i \in 1..Len(last.X) : last.replaced[i] # NAN

\* C5: when every tag path has probability zero, decode raises (the path
\* returned by viterbi is None) and returns no tag sequence.
C5_BlockedLatticeFails ==
    (HmmCalled /\ ~Solvable(basic_model, last.replaced)) =>
        /\ ~last.ok
        /\ last.err = "TypeError"
        /\ last.tags = <<>>

\* a model with transitions, and observations every tag could emit, for which
\* a transition that was never created blocks every path
C5_Witness ==
    /\ HmmCalled
    /\ Len(basic_model.trans) >= 3
    /\ \A i \in 1..Len(last.X) : last.replaced[i] = NAN
    /\ ~Solvable(basic_model, last.replaced)
    /\ ~last.ok

-----------------------------------------------------------------------------
(* Accuracy *)

\* the tag decoded for position p, or no tag when decoding raised
DecodedTag(r, p) == IF r.ok /\ p <= Len(r.tags) THEN r.tags[p] ELSE "none"

\* the positions of a sentence at which the outcome r of its decoding holds
\* the gold tag
CorrectIn(r, actual_tags) ==
    {j \in 1..Len(actual_tags) : DecodedTag(r, j) = actual_tags[j]}

\* the number of such positions in a batch
ExpectedCorrect(X, Y, model) ==
    Cardinality(UNION {
        {<<i, j>> : j \in CorrectIn(simplify_decoding(X[i], model, vocab(data.training_set)),
                                    Y[i])} : i \in 1..Len(X)})

\* the sentence i of the batch cannot be decoded
Fails(X, model, i) == ~simplify_decoding(X[i], model, vocab(data.training_set)).ok

\* acc is the accuracy of the model on a batch of one token or more
AccuracyIs(acc, batch, model) ==
    NumTokens(batch.X) > 0 =>
        /\ acc.err = "none"
        /\ acc.total = NumTokens(batch.X)
        /\ acc.correct = ExpectedCorrect(batch.X, batch.Y, model)

\* C4: accuracy returns the number of positions whose decoded tag is the gold
\* tag, counted over the sentences that were decoded, divided by the number
\* of tokens of all the sentences of the batch: a sentence whose decoding
\* raises adds nothing to the numerator and its length to the denominator,
\* and the sentences after it are still decoded and scored.
\* Stated of the state each accuracy cell leaves: no later step assigns the
\* accuracies.
C4_AccuracyCountsFailuresAsErrors ==
    /\ pc = "tag_unigrams" =>
          /\ AccuracyIs(mfc_training_acc, data.training_set, mfc_model)
          /\ AccuracyIs(mfc_testing_acc, data.testing_set, mfc_model)
    /\ pc = "ready" =>
          /\ AccuracyIs(hmm_training_acc, data.training_set, basic_model)
          /\ AccuracyIs(hmm_testing_acc, data.testing_set, basic_model)

\* the HMM was built and scored on a batch in which a sentence that cannot be
\* decoded comes before a sentence that is decoded and scores
C4_Witness ==
    /\ pc = "ready"
    /\ basic_model.baked
    /\ hmm_training_acc.correct >= 1
    /\ hmm_training_acc.correct < hmm_training_acc.total
    /\ \E i \in 1..NumSentences(data.training_set) :
       \E j \in (i + 1)..NumSentences(data.training_set) :
          /\ Fails(data.training_set.X, basic_model, i)
          /\ ~Fails(data.training_set.X, basic_model, j)

\* the accuracy a is at least the accuracy b
AtLeast(a, b) == a.correct * b.total >= b.correct * a.total

\* C7 (as claimed): on any corpus split the accuracy of the HMM tagger is at
\* least the accuracy of the most frequent class tagger trained on the same
\* training set.  Stated of the models whose construction completed, on the
\* training set and on a testing set of one token or more.
C7_HmmAtLeastBaseline ==
    (Ran("hmm_acc") /\ basic_model.baked) =>
        /\ AtLeast(hmm_training_acc, mfc_training_acc)
        /\ (NumTokens(data.testing_set.X) > 0 =>
               AtLeast(hmm_testing_acc, mfc_testing_acc))

-----------------------------------------------------------------------------
(* The most frequent class tagger *)

\* the last call was made on the most frequent class tagger
MfcCalled == pc = "called" /\ last.model = "mfc"

\* C11: the most frequent class tagger returns one tag per input word; the tag
\* of a word seen in training is a tag recorded for that word whose count with
\* the word is the largest, the tag of a word never seen in training is
\* <MISSING>, and the tag of a position is the tag the word gets when it is
\* decoded alone.
C11_BaselineTagsEachWord ==
    MfcCalled =>
        /\ last.ok
        /\ Len(last.tags) = Len(last.X)
        /\ \A i \in 1..Len(last.X) :
              /\ last.X[i] \in vocab(data.training_set) =>
                    /\ PairCountOf(word_counts, last.X[i], last.tags[i]) >= 1
                    /\ \A t \in AllTags :
                          PairCountOf(word_counts, last.X[i], t)
                              <= PairCountOf(word_counts, last.X[i], last.tags[i])
              /\ last.X[i] \notin vocab(data.training_set) => last.tags[i] = MISSING
              /\ last.tags[i] =
                    simplify_decoding(<<last.X[i]>>, mfc_model,
                                      vocab(data.training_set)).tags[1]

\* the tagger was called on a word whose most frequent tag is not the tag it
\* was first seen with, next to a word never seen in training
C11_Witness ==
    /\ MfcCalled
    /\ Len(last.X) = 2
    /\ last.tags[2] = MISSING
    /\ last.X[1] \in vocab(data.training_set)
    /\ last.tags[1] # DictGet(word_counts, last.X[1])[1][1]
    /\ Len(DictGet(word_counts, last.X[1])) = 2

-----------------------------------------------------------------------------
(* Repeated calls *)

\* the taggers as the construction cells leave them
BuiltMfc == MFCTagger(mfc_table_of(word_counts, vocab(data.training_set)))
BuiltHmm ==
    build_basic_model(emission_counts, tag_unigrams, tag_bigrams, tag_starts,
                      tag_ends, NumSentences(data.training_set)).model

\* what a call hands back: the tag sequence, or the failure
OutputOf(r) == [ok |-> r.ok, err |-> r.err, tags |-> r.tags]

\* C12: whatever calls were made before it, a call returns what the same call
\* returns on the tagger as it was built; two calls on the same observation
\* sequence and the same tagger therefore return the same output, whatever
\* calls were made in between.
C12_SameCallSameOutput ==
    pc = "called" =>
        OutputOf(last) =
            OutputOf(simplify_decoding(last.X,
                                       IF last.model = "mfc" THEN BuiltMfc ELSE BuiltHmm,
                                       vocab(data.training_set)))

\* a call on known words only, on the most frequent class tagger, made after
\* an earlier call changed the table of the tagger (no sentence of an empty
\* testing set can have changed it)
C12_Witness ==
    /\ MfcCalled
    /\ Len(data.testing_set.X) = 0
    /\ \A i \in 1..Len(last.X) : last.X[i] \in vocab(data.training_set)
    /\ mfc_model # BuiltMfc
    /\ last.ok

\* C13 (as claimed): once the taggers are built no call changes them: after
\* any sequence of calls, failing calls and calls on words never seen in
\* training included, the table of the most frequent class tagger and the
\* states and transitions of the HMM are what the construction cells left, and
\* the output of the call is the output of the same call made alone.
C13_CallsLeaveModelsUnchanged ==
    pc = "called" =>
        /\ mfc_model = BuiltMfc
        /\ basic_model = BuiltHmm
        /\ OutputOf(last) =
                OutputOf(simplify_decoding(last.X,
                                           IF last.model = "mfc" THEN BuiltMfc
                                           ELSE BuiltHmm,
                                           vocab(data.training_set)))

-----------------------------------------------------------------------------
(* The construction of the model *)

\* the model holds the edge from a to b with the probability n / d
HasTransition(m, a, b, n, d) ==
    DictHas(m.trans, <<a, b>>) /\ DictGet(m.trans, <<a, b>>) = Frac(n, d)

\* C14 (as claimed): on every training corpus the construction cell completes
\* without an exception and, for every pair (a, b) of the bigram table, the
\* model holds start -> a with probability starts[a] / sentences, a -> b with
\* probability bigrams[(a, b)] / unigrams[a] and a -> end with probability
\* ends[a] / sentences; it holds no edge between two tags whose pair is not
\* in the bigram table.
C14_ConstructionCompletes ==
    Ran("basic_model") =>
        /\ build_err = "none"
        /\ basic_model.baked
        /\ \A i \in 1..Len(tag_bigrams) :
              /\ HasTransition(basic_model, START, tag_bigrams[i][1][1],
                               CountOf(tag_starts, tag_bigrams[i][1][1]),
                               NumSentences(data.training_set))
              /\ HasTransition(basic_model, tag_bigrams[i][1][1], tag_bigrams[i][1][2],
                               tag_bigrams[i][2],
                               CountOf(tag_unigrams, tag_bigrams[i][1][1]))
              /\ HasTransition(basic_model, tag_bigrams[i][1][1], END,
                               CountOf(tag_ends, tag_bigrams[i][1][1]),
                               NumSentences(data.training_set))
        /\ \A a \in AllTags : \A b \in AllTags :
              DictHas(basic_model.trans, <<a, b>>) => DictHas(tag_bigrams, <<a, b>>)

\* the sum of two fractions, and of the fractions of a sequence
Add(p, q) == Frac(p[1] * q[2] + q[1] * p[2], p[2] * q[2])
RECURSIVE FracSum(_)
FracSum(ps) == IF ps = <<>> THEN Zero ELSE Add(Head(ps), FracSum(Tail(ps)))

\* the probabilities of the edges of the model that leave the state a
Outgoing(m, a) ==
    [i \in 1..Len(SelectSeq(m.trans, LAMBDA e : e[1][1] = a)) |->
        SelectSeq(m.trans, LAMBDA e : e[1][1] = a)[i][2]]

\* the probabilities a state gives to the words it emits
Emissions(m, tag) ==
    [i \in 1..Len(DictGet(m.dist, tag)) |-> DictGet(m.dist, tag)[i][2]]

\* C15 (as claimed): every distribution of a model whose construction
\* completed is normalized: the emission probabilities of each state sum to
\* one, the probabilities of the edges created from the start state sum to
\* one, and the probabilities of the edges created from each state, to the
\* other states and to the end state, sum to one.
C15_DistributionsNormalized ==
    (Ran("basic_model") /\ build_err = "none") =>
        /\ \A k \in 1..Len(basic_model.states) :
              FracSum(Emissions(basic_model, basic_model.states[k])) = One
        /\ Outgoing(basic_model, START) # <<>> =>
              FracSum(Outgoing(basic_model, START)) = One
        /\ \A k \in 1..Len(basic_model.states) :
              Outgoing(basic_model, basic_model.states[k]) # <<>> =>
                  FracSum(Outgoing(basic_model, basic_model.states[k])) = One

\* the construction cell ran to its end and the model was baked
Finalized == build_err = "none" /\ basic_model.baked

\* C16 (as claimed): when the construction cell raises, no model is exposed:
\* the accuracy cell and every call on the HMM operate on a model whose
\* construction completed and that was baked, never on a partly built one.
C16_OnlyFinalizedModelExposed ==
    /\ Ran("hmm_acc") => Finalized
    /\ (pc = "called" /\ last.model = "hmm") => Finalized

-----------------------------------------------------------------------------
(* Collections that do not pair up *)

\* A and B differ in the number of sequences, or a sequence of A and the
\* sequence of B at the same index differ in length
Malformed(A, B) ==
    \/ Len(A) # Len(B)
    \/ \E i \in 1..Min(Len(A), Len(B)) : Len(A[i]) # Len(B[i])

\* C17 (as claimed): when the two collections given to pair_counts, or to
\* accuracy, differ in the number of sequences or in the length of a pair of
\* sequences, in either direction, the call fails and returns no table and no
\* accuracy; the surplus is never silently ignored.
C17_MalformedInputFails ==
    (direct.fn # "none" /\ Malformed(direct.A, direct.B)) => direct.err # "none"

====
